---- MODULE Spec2Model ----
(***************************************************************************)
(* ATIM (AI Trend & Inventory Manager): the keyword extractor, the        *)
(* fallback sampler and the hand-off to the recommendation composer of    *)
(* the CLI (main.py) and of the web application (app.py), and the upload  *)
(* handler's use of the shared upload and report folders.                 *)
(*                                                                         *)
(* Strings are sequences of one-character strings, so that str.lower() is *)
(* computed character by character.  Floats are fixed-point integers:     *)
(* the float x is the integer x * Scale.  A number carries the name of    *)
(* its Python type ("float", "int", "np.float64", "np.int64").            *)
(***************************************************************************)
EXTENDS Integers, Sequences, FiniteSets, TLC

VARIABLES
    \* get_shoe_keywords called on its own (SpecKeywords)
    kw_pc, kw_items, kw_use_inventory, kw_additional, kw_loaded, kw_result,
    \* one analysis run, web or CLI (Spec)
    path, pc, inventory_items, max_keywords, min_confidence, keywords,
    scorer_result, trending_products, fallback_ran, handed,
    \* concurrent upload requests (SpecUpload)
    now, uploads, reports, rq

kwVars == <<kw_pc, kw_items, kw_use_inventory, kw_additional, kw_loaded, kw_result>>
runVars == <<path, pc, inventory_items, max_keywords, min_confidence, keywords,
             scorer_result, trending_products, fallback_ran, handed>>
upVars == <<now, uploads, reports, rq>>
vars == <<kwVars, runVars, upVars>>

----------------------------------------------------------------------------
(* Bounds of the model *)

\* longest inventory (number of items) enumerated exhaustively
MaxItems == 3
\* longest list of additional keywords enumerated
MaxAdditional == 2
\* last clock second of the upload model (the clock starts at second 0)
MaxClock == 1

----------------------------------------------------------------------------
(* Strings and str.lower() *)

UpperLetters ==
    <<"A","B","C","D","E","F","G","H","I","J","K","L","M",
      "N","O","P","Q","R","S","T","U","V","W","X","Y","Z">>
LowerLetters ==
    <<"a","b","c","d","e","f","g","h","i","j","k","l","m",
      "n","o","p","q","r","s","t","u","v","w","x","y","z">>

LowerChar(c) ==
    IF \E i \in 1..Len(UpperLetters) : UpperLetters[i] = c
    THEN LowerLetters[CHOOSE i \in 1..Len(UpperLetters) : UpperLetters[i] = c]
    ELSE c

\* str.lower()
Lower(s) == [i \in 1..Len(s) |-> LowerChar(s[i])]

\* x in list
InList(x, list) == \E i \in 1..Len(list) : list[i] = x

\* [f(e) for e in list]
LowerAll(list) == [i \in 1..Len(list) |-> Lower(list[i])]

SeqsUpTo(S, n) == UNION {[1..k -> S] : k \in 0..n}

Boots == <<"B","o","o","t","s">>
boots == <<"b","o","o","t","s">>
Shoes == <<"S","h","o","e","s">>
shoes == <<"s","h","o","e","s">>
Heels == <<"H","E","E","L","S">>
loafers == <<"l","o","a","f","e","r","s">>
Loafers == <<"L","o","a","f","e","r","s">>
Pumps == <<"P","u","m","p","s">>

\* product names an inventory item may carry
ProductNames == {Boots, boots, Shoes}

\* an inventory of six items, longer than the fallback's sample of five
SixItems == <<Boots, Shoes, Heels, loafers, boots, Pumps>>

\* the inventories (lists of the items' product names) a run may load
Inventories == SeqsUpTo(ProductNames, MaxItems) \cup {SixItems}

\* the additional keywords a caller of get_shoe_keywords may pass
AdditionalNames == {Shoes, boots, Loafers}
AdditionalLists == SeqsUpTo(AdditionalNames, MaxAdditional)

\* InventoryManager().get_all_inventory() on the default inventory file:
\* an exception, or the items
LoadOutcomes ==
    {[ok |-> FALSE, items |-> <<>>],
     [ok |-> TRUE, items |-> <<>>],
     [ok |-> TRUE, items |-> <<Shoes, shoes>>]}

----------------------------------------------------------------------------
(* get_shoe_keywords, main.py *)

\* a plausible slip: an empty list where the code falls back to its defaults
NoDefaultKeywords == <<>>

\* the default keyword list (lines 46-52 and again 54-60)
DefaultKeywords ==
    <<
       <<"c","h","u","n","k","y"," ","s","n","e","a","k","e","r","s">>,
       <<"w","a","t","e","r","p","r","o","o","f"," ","b","o","o","t","s">>,
       <<"e","s","p","a","d","r","i","l","l","e","s">>,
       <<"a","n","k","l","e"," ","b","o","o","t","s">>,
       <<"r","e","t","r","o"," ","r","u","n","n","e","r","s">>,
       <<"p","l","a","t","f","o","r","m"," ","s","a","n","d","a","l","s">>,
       <<"m","i","n","i","m","a","l","i","s","t"," ","r","u","n","n","i","n","g"," ","s","h","o","e","s">>,
       <<"s","u","e","d","e"," ","b","o","o","t","s">>,
       <<"c","a","n","v","a","s"," ","s","h","o","e","s">>,
       <<"r","u","n","n","i","n","g"," ","s","n","e","a","k","e","r","s">>,
       <<"h","i","k","i","n","g"," ","b","o","o","t","s">>,
       <<"d","r","e","s","s"," ","s","h","o","e","s">>,
       <<"l","o","a","f","e","r","s">>,
       <<"h","i","g","h"," ","t","o","p"," ","s","n","e","a","k","e","r","s">>,
       <<"s","l","i","p"," ","o","n"," ","s","h","o","e","s">>
    >>

\* lines 30-39: the items to use; None and the empty list are both falsy, and
\* a failed load leaves items = None
ItemsToUse(items_arg, loaded) ==
    IF items_arg # <<>> THEN items_arg
    ELSE IF loaded.ok THEN loaded.items ELSE <<>>

\* lines 41-52
InventoryKeywords(items) ==
    IF items # <<>> THEN LowerAll(items) ELSE DefaultKeywords

\* a plausible slip: the additional keyword is appended as given
RECURSIVE MergeAdditionalAsGiven(_, _)
MergeAdditionalAsGiven(kws, additional) ==
    IF additional = <<>> THEN kws
    ELSE LET keyword == Head(additional)
         IN  IF ~InList(Lower(keyword), LowerAll(kws))
             THEN MergeAdditionalAsGiven(Append(kws, keyword), Tail(additional))
             ELSE MergeAdditionalAsGiven(kws, Tail(additional))

\* lines 62-65
RECURSIVE MergeAdditional(_, _)
MergeAdditional(kws, additional) ==
    IF additional = <<>> THEN kws
    ELSE LET keyword == Head(additional)
         IN  IF ~InList(Lower(keyword), LowerAll(kws))
             THEN MergeAdditional(Append(kws, Lower(keyword)), Tail(additional))
             ELSE MergeAdditional(kws, Tail(additional))

\* a plausible slip: no deduplication
KeepAll(kws, seen, unique_keywords) == unique_keywords \o kws

\* lines 67-73
RECURSIVE Unique(_, _, _)
Unique(kws, seen, unique_keywords) ==
    IF kws = <<>> THEN unique_keywords
    ELSE LET keyword == Head(kws)
             keyword_lower == Lower(keyword)
         IN  IF keyword_lower \notin seen
             THEN Unique(Tail(kws), seen \cup {keyword_lower},
                             Append(unique_keywords, keyword))
             ELSE Unique(Tail(kws), seen, unique_keywords)

\* lines 25-75; loaded is what InventoryManager().get_all_inventory() yields
\* if it is called
get_shoe_keywords(items_arg, use_inventory, additional_keywords, loaded) ==
    LET base == IF use_inventory
                THEN InventoryKeywords(ItemsToUse(items_arg, loaded))
                ELSE DefaultKeywords
    IN  Unique(MergeAdditional(base, additional_keywords), {}, <<>>)

----------------------------------------------------------------------------
(* Numbers *)

\* fixed-point resolution: the float x is modelled by the integer x * Scale
Scale == 200

Num(t, v) == [type |-> t, val |-> v]

\* a Python float literal or an int literal used as a float
Lit(n) == Num("float", n * Scale)

IsNumpy(x) == x.type \in {"np.float64", "np.int64", "np.ndarray"}

\* the type of x (op) y for scalars: a numpy operand makes a numpy result
ResultType(x, y) == IF IsNumpy(x) \/ IsNumpy(y) THEN "np.float64" ELSE "float"

\* abs(x)
Abs(x) == Num(x.type, IF x.val < 0 THEN -x.val ELSE x.val)

\* x * (num / den), for the literals 0.6, 0.4 and 1.2
Times(x, num, den) == Num(ResultType(x, Lit(0)), (x.val * num) \div den)

\* x + y
Plus(x, y) == Num(ResultType(x, y), x.val + y.val)

\* float(x)
Float(x) == Num("float", x.val)

\* random.random() in units of 1/Scale: the generator's stream is a cyclic
\* table, and a run starts at any position of it (the seed)
RandomUnits ==
    <<200, 128,  200, 32,  150, 120,  156, 120,  156, 40,
      150, 40,   0, 80,    200, 200,  0, 0>>

Seeds == 1..Len(RandomUnits)

\* the k-th value random.random() returns after seeding
Unit(seed, k) == RandomUnits[((seed + k - 2) % Len(RandomUnits)) + 1]

\* random.uniform(a, b) = a + (b - a) * random.random()
Uniform(a, b, u) == Num("float", a * Scale + (b - a) * u)

NumericFields == {"confidence", "velocity", "strength", "current_value", "peak_value"}
RecordFields == {"keyword", "status"} \cup NumericFields

\* list[:n]
Prefix(list, n) == SubSeq(list, 1, IF n < Len(list) THEN n ELSE Len(list))

----------------------------------------------------------------------------
(* The fallback of the web path, app.py process_inventory *)

\* a plausible slip: the signed velocity is blended
ConfidenceSigned(velocity, base_strength) ==
    Plus(Times(velocity, 6, 10), Times(base_strength, 4, 10))

\* line 156
ConfidenceWeb(velocity, base_strength) ==
    Plus(Times(Abs(velocity), 6, 10), Times(base_strength, 4, 10))

\* a plausible slip: the strength threshold is checked first
StatusStrengthFirst(velocity, base_strength) ==
    IF base_strength.val > 70 * Scale THEN "Peaking"
    ELSE IF velocity.val > 5 * Scale THEN "Rising"
    ELSE IF velocity.val < -5 * Scale THEN "Declining"
    ELSE "Stable"

\* lines 158-165
StatusWeb(velocity, base_strength) ==
    IF velocity.val > 5 * Scale THEN "Rising"
    ELSE IF velocity.val < -5 * Scale THEN "Declining"
    ELSE IF base_strength.val > 70 * Scale THEN "Peaking"
    ELSE "Stable"

\* a plausible slip: the peak is not scaled up
RecordFlatPeak(keyword, base_strength, velocity) ==
    [keyword |-> keyword,
     status |-> StatusWeb(velocity, base_strength),
     confidence |-> Float(ConfidenceWeb(velocity, base_strength)),
     velocity |-> Float(velocity),
     strength |-> Float(base_strength),
     current_value |-> Float(base_strength),
     peak_value |-> Float(Times(base_strength, 8, 10))]

\* lines 156-175
RecordWeb(keyword, base_strength, velocity) ==
    [keyword |-> keyword,
     status |-> StatusWeb(velocity, base_strength),
     confidence |-> Float(ConfidenceWeb(velocity, base_strength)),
     velocity |-> Float(velocity),
     strength |-> Float(base_strength),
     current_value |-> Float(base_strength),
     peak_value |-> Float(Times(base_strength, 12, 10))]

\* a plausible slip: the slice starts at the second keyword
SampleFromSecond(kws) == SubSeq(kws, 2, IF 6 < Len(kws) THEN 6 ELSE Len(kws))

\* line 150
SampleKeywordsWeb(kws) == Prefix(kws, 5)

\* a plausible slip: the sampled records are filtered like the scorer's
SampleWebFiltered(kws, seed) ==
    LET sample_keywords == SampleKeywordsWeb(kws)
        sampled == [i \in 1..Len(sample_keywords) |->
                      RecordWeb(sample_keywords[i],
                                Uniform(40, 80, Unit(seed, 2 * i - 1)),
                                Uniform(-10, 15, Unit(seed, 2 * i)))]
    IN  SelectSeq(sampled, LAMBDA r : r.confidence.val >= min_confidence.val)

\* lines 151-175: the i-th pass draws base_strength, then velocity
SampleWeb(kws, seed) ==
    LET sample_keywords == SampleKeywordsWeb(kws)
    IN  [i \in 1..Len(sample_keywords) |->
            RecordWeb(sample_keywords[i],
                      Uniform(40, 80, Unit(seed, 2 * i - 1)),
                      Uniform(-10, 15, Unit(seed, 2 * i)))]

\* a plausible slip: the fallback replaces whatever the scorer returned
NeedsFallbackAlways(trending, kws) == kws # <<>>

\* line 148
NeedsFallbackWeb(trending, kws) == trending = <<>> /\ kws # <<>>

\* lines 114-126, on one number
convert_number(x) ==
    IF x.type = "np.int64" THEN Num("int", x.val)
    ELSE IF x.type = "np.float64" THEN Num("float", x.val)
    ELSE x

\* lines 114-126, on a trend record (a dict) and on the list of them
convert_record(r) ==
    [f \in DOMAIN r |-> IF f \in NumericFields THEN convert_number(r[f]) ELSE r[f]]

convert_to_python_type(list) == [i \in 1..Len(list) |-> convert_record(list[i])]

----------------------------------------------------------------------------
(* The fallback of the CLI, main.py main *)

\* line 291
ConfidenceCli(velocity, base_strength) ==
    Plus(Times(Abs(velocity), 6, 10), Times(base_strength, 4, 10))

\* lines 293-300
StatusCli(velocity, base_strength) ==
    IF velocity.val > 5 * Scale THEN "Rising"
    ELSE IF velocity.val < -5 * Scale THEN "Declining"
    ELSE IF base_strength.val > 70 * Scale THEN "Peaking"
    ELSE "Stable"

\* lines 291-310
RecordCli(keyword, base_strength, velocity) ==
    [keyword |-> keyword,
     status |-> StatusCli(velocity, base_strength),
     confidence |-> ConfidenceCli(velocity, base_strength),
     velocity |-> velocity,
     strength |-> base_strength,
     current_value |-> base_strength,
     peak_value |-> Times(base_strength, 12, 10)]

\* line 285
SampleKeywordsCli(kws) == Prefix(kws, 5)

\* lines 286-310
SampleCli(kws, seed) ==
    LET sample_keywords == SampleKeywordsCli(kws)
    IN  [i \in 1..Len(sample_keywords) |->
            RecordCli(sample_keywords[i],
                      Uniform(40, 80, Unit(seed, 2 * i - 1)),
                      Uniform(-10, 15, Unit(seed, 2 * i)))]

\* line 282
NeedsFallbackCli(trending) == trending = <<>>

----------------------------------------------------------------------------
(* The Trend Scorer, TrendAnalyzer.get_high_confidence_trends              *)
(* (trend_analysis.py), after the specification's section 4.2             *)

\* what the external fetcher measures for the keyword at a position of the
\* list: <<strength, velocity>>, in whole units
Measures == << <<30, 0>>, <<90, 6>>, <<75, 2>>, <<50, -8>> >>

Measure(i) == Measures[((i - 1) % Len(Measures)) + 1]

\* the feeds: the source is unavailable (every fetch fails), or it answers, and
\* the scorer's arithmetic yields plain floats or numpy scalars
Feeds ==
    {[live |-> FALSE, dtype |-> "float"],
     [live |-> TRUE, dtype |-> "float"],
     [live |-> TRUE, dtype |-> "np.float64"]}

\* steps 3-6 for one keyword
ScoreRecord(keyword, strength, velocity) ==
    [keyword |-> keyword,
     status |-> IF velocity.val > 5 * Scale THEN "Rising"
                ELSE IF velocity.val < -5 * Scale THEN "Declining"
                ELSE IF strength.val > 70 * Scale THEN "Peaking"
                ELSE "Stable",
     confidence |-> Plus(Times(Abs(velocity), 6, 10), Times(strength, 4, 10)),
     velocity |-> velocity,
     strength |-> strength,
     current_value |-> strength,
     peak_value |-> strength]

\* step 8: a stable sort by confidence, descending
RECURSIVE InsertByConfidence(_, _)
InsertByConfidence(sorted, r) ==
    IF sorted = <<>> THEN <<r>>
    ELSE IF Head(sorted).confidence.val >= r.confidence.val
         THEN <<Head(sorted)>> \o InsertByConfidence(Tail(sorted), r)
         ELSE <<r>> \o sorted

RECURSIVE SortByConfidence(_, _)
SortByConfidence(list, sorted) ==
    IF list = <<>> THEN sorted
    ELSE SortByConfidence(Tail(list), InsertByConfidence(sorted, Head(list)))

\* steps 1-8
get_high_confidence_trends(kws, min_conf, max_kw, feed) ==
    LET first == Prefix(kws, max_kw)
        scored == [i \in 1..Len(first) |->
                     ScoreRecord(first[i],
                                 Num(feed.dtype, Measure(i)[1] * Scale),
                                 Num(feed.dtype, Measure(i)[2] * Scale))]
        retained == SelectSeq(scored, LAMBDA r : r.confidence.val >= min_conf.val)
    IN  IF feed.live THEN SortByConfidence(retained, <<>>) ELSE <<>>

----------------------------------------------------------------------------
(* One analysis run *)

\* the form values of an upload: max_keywords and min_confidence
MaxKeywordsInputs == {2, 15}
MinConfidenceInputs == {20, 90}

KwIdle ==
    /\ kw_pc = "idle" /\ kw_items = <<>> /\ kw_use_inventory = TRUE
    /\ kw_additional = <<>> /\ kw_loaded = [ok |-> TRUE, items |-> <<>>]
    /\ kw_result = <<>>

UpIdle ==
    /\ now = 0 /\ uploads = {} /\ reports = {} /\ rq = <<>>

RunIdle ==
    /\ path = "none" /\ pc = "idle" /\ inventory_items = <<>>
    /\ max_keywords = 0 /\ min_confidence = Lit(0) /\ keywords = <<>>
    /\ scorer_result = <<>> /\ trending_products = <<>>
    /\ fallback_ran = FALSE /\ handed = <<>>

\* the web path starts with the uploaded inventory and the form's values
\* (app.py lines 84-88, 129-134); the CLI with the default inventory and its
\* own constants (main.py lines 233-235, 265, 275)
Init ==
    /\ KwIdle /\ UpIdle
    /\ pc = "start"
    /\ inventory_items \in Inventories
    /\ \/ /\ path = "web"
          /\ max_keywords \in MaxKeywordsInputs
          /\ min_confidence \in {Lit(c) : c \in MinConfidenceInputs}
       \/ /\ path = "cli"
          /\ max_keywords = 15
          /\ min_confidence = Lit(20)
    /\ keywords = <<>>
    /\ scorer_result = <<>>
    /\ trending_products = <<>>
    /\ fallback_ran = FALSE
    /\ handed = <<>>

\* app.py line 138
WebKeywords ==
    /\ path = "web" /\ pc = "start"
    /\ keywords' = LowerAll(inventory_items)
    /\ pc' = "keywords"
    /\ UNCHANGED <<path, inventory_items, max_keywords, min_confidence,
                   scorer_result, trending_products, fallback_ran, handed>>
    /\ UNCHANGED <<kwVars, upVars>>

\* main.py line 262
CliKeywords ==
    /\ path = "cli" /\ pc = "start"
    /\ \E loaded \in (IF inventory_items = <<>> THEN LoadOutcomes
                      ELSE {[ok |-> TRUE, items |-> <<>>]}) :
          keywords' = get_shoe_keywords(inventory_items, TRUE, <<>>, loaded)
    /\ pc' = "keywords"
    /\ UNCHANGED <<path, inventory_items, max_keywords, min_confidence,
                   scorer_result, trending_products, fallback_ran, handed>>
    /\ UNCHANGED <<kwVars, upVars>>

\* app.py lines 141-145, main.py lines 273-277
AnalyzeTrends ==
    /\ pc = "keywords"
    /\ \E feed \in Feeds :
          /\ trending_products' =
                get_high_confidence_trends(keywords, min_confidence, max_keywords, feed)
          /\ scorer_result' = trending_products'
    /\ pc' = "scored"
    /\ UNCHANGED <<path, inventory_items, max_keywords, min_confidence,
                   keywords, fallback_ran, handed>>
    /\ UNCHANGED <<kwVars, upVars>>

\* app.py lines 148-175
WebFallback ==
    /\ path = "web" /\ pc = "scored"
    /\ IF NeedsFallbackWeb(trending_products, keywords)
       THEN /\ \E seed \in Seeds : trending_products' = SampleWeb(keywords, seed)
            /\ fallback_ran' = TRUE
       ELSE UNCHANGED <<trending_products, fallback_ran>>
    /\ pc' = "sampled"
    /\ UNCHANGED <<path, inventory_items, max_keywords, min_confidence,
                   keywords, scorer_result, handed>>
    /\ UNCHANGED <<kwVars, upVars>>

\* main.py lines 282-310
CliFallback ==
    /\ path = "cli" /\ pc = "scored"
    /\ IF NeedsFallbackCli(trending_products)
       THEN /\ \E seed \in Seeds : trending_products' = SampleCli(keywords, seed)
            /\ fallback_ran' = TRUE
       ELSE UNCHANGED <<trending_products, fallback_ran>>
    /\ pc' = "sampled"
    /\ UNCHANGED <<path, inventory_items, max_keywords, min_confidence,
                   keywords, scorer_result, handed>>
    /\ UNCHANGED <<kwVars, upVars>>

\* app.py lines 178-186: convert, then generate_recommendations
WebHandOff ==
    /\ path = "web" /\ pc = "sampled"
    /\ trending_products' = convert_to_python_type(trending_products)
    /\ handed' = trending_products'
    /\ pc' = "handed"
    /\ UNCHANGED <<path, inventory_items, max_keywords, min_confidence,
                   keywords, scorer_result, fallback_ran>>
    /\ UNCHANGED <<kwVars, upVars>>

\* main.py lines 313-334: display, then generate_recommendations
CliHandOff ==
    /\ path = "cli" /\ pc = "sampled"
    /\ handed' = trending_products
    /\ pc' = "handed"
    /\ UNCHANGED <<path, inventory_items, max_keywords, min_confidence,
                   keywords, scorer_result, trending_products, fallback_ran>>
    /\ UNCHANGED <<kwVars, upVars>>

Next ==
    \/ WebKeywords
    \/ CliKeywords
    \/ AnalyzeTrends
    \/ WebFallback
    \/ CliFallback
    \/ WebHandOff
    \/ CliHandOff

Spec == Init /\ [][Next]_vars

----------------------------------------------------------------------------
(* Properties of one analysis run *)

\* the records the fallback built in this run
FallbackRecords == IF fallback_ran THEN trending_products ELSE <<>>

\* the status the thresholds give, velocity first
ExpectedStatus(velocity, strength) ==
    IF velocity > 5 * Scale THEN "Rising"
    ELSE IF velocity < -5 * Scale THEN "Declining"
    ELSE IF strength > 70 * Scale THEN "Peaking"
    ELSE "Stable"

\* C1: every fallback record, of the web path and of the CLI, has the status
\* its own velocity and strength give with the velocity thresholds checked
\* first (velocity > 5 Rising, velocity < -5 Declining, else strength > 70
\* Peaking, else Stable); velocity 6 with strength 90 is Rising, and the
\* values 5, -5 and 70 themselves fall into the later branches.
C1_StatusByVelocityFirst ==
    /\ \A i \in 1..Len(FallbackRecords) :
          LET r == FallbackRecords[i]
          IN  r.status = ExpectedStatus(r.velocity.val, r.strength.val)
    /\ StatusWeb(Lit(6), Lit(90)) = "Rising"
    /\ StatusCli(Lit(6), Lit(90)) = "Rising"
    /\ StatusWeb(Lit(5), Lit(70)) = "Stable"
    /\ StatusCli(Lit(-5), Lit(70)) = "Stable"

\* a CLI fallback with a Rising record of strength above 70 and a Stable
\* record exactly on the thresholds velocity = 5 and strength = 70
C1_Witness ==
    /\ path = "cli" /\ fallback_ran
    /\ \E i \in 1..Len(trending_products) :
          /\ trending_products[i].velocity.val = 6 * Scale
          /\ trending_products[i].strength.val = 80 * Scale
          /\ trending_products[i].status = "Rising"
    /\ \E i \in 1..Len(trending_products) :
          /\ trending_products[i].velocity.val = 5 * Scale
          /\ trending_products[i].strength.val = 70 * Scale
          /\ trending_products[i].status = "Stable"

\* C2: every fallback record's confidence is |velocity| * 0.6 + strength * 0.4
\* of the same record: 10 * confidence = 6 * |velocity| + 4 * strength.
C2_ConfidenceBlend ==
    \A i \in 1..Len(FallbackRecords) :
       LET r == FallbackRecords[i]
           magnitude == IF r.velocity.val < 0 THEN -r.velocity.val ELSE r.velocity.val
       IN  10 * r.confidence.val = 6 * magnitude + 4 * r.strength.val

\* a web fallback record with velocity -6 and strength 80: confidence 35.6
C2_Witness ==
    /\ path = "web" /\ fallback_ran
    /\ \E i \in 1..Len(trending_products) :
          /\ trending_products[i].velocity.val = -6 * Scale
          /\ trending_products[i].strength.val = 80 * Scale
          /\ 10 * trending_products[i].confidence.val = 356 * Scale

\* C3: a fallback over n keywords yields min(n, 5) records, the i-th for the
\* i-th keyword; over no keywords the loop yields the empty sequence.
C3_FirstFiveInOrder ==
    /\ fallback_ran =>
          /\ Len(trending_products) = (IF Len(keywords) < 5 THEN Len(keywords) ELSE 5)
          /\ \A i \in 1..Len(trending_products) :
                trending_products[i].keyword = keywords[i]
    /\ \A seed \in Seeds : SampleWeb(<<>>, seed) = <<>> /\ SampleCli(<<>>, seed) = <<>>

\* a web fallback over six keywords: five records, the sixth keyword in none
C3_Witness ==
    /\ path = "web" /\ fallback_ran
    /\ Len(keywords) = 6
    /\ Len(trending_products) = 5
    /\ \A i \in 1..5 : trending_products[i].keyword # keywords[6]

\* a list of records without the numbers' Python types
Values(list) ==
    [i \in 1..Len(list) |->
        [f \in DOMAIN list[i] |->
            IF f \in NumericFields THEN list[i][f].val ELSE list[i][f]]]

\* C4: the fallback runs only when the scorer's result is empty and there is
\* a keyword; when the scorer's result is not empty the fallback does not run
\* and the composer is handed the scorer's records, in the scorer's order.
C4_FallbackOnlyWhenEmpty ==
    /\ fallback_ran => (scorer_result = <<>> /\ keywords # <<>>)
    /\ scorer_result # <<>> =>
          /\ ~fallback_ran
          /\ pc \in {"sampled", "handed"} =>
                Values(trending_products) = Values(scorer_result)
          /\ pc = "handed" => Values(handed) = Values(scorer_result)

\* a web run whose scorer returned two or more numpy-typed records: they are
\* handed on, converted, and the fallback did not run
C4_Witness ==
    /\ path = "web" /\ pc = "handed" /\ ~fallback_ran
    /\ Len(scorer_result) >= 2
    /\ scorer_result[1].confidence.type = "np.float64"
    /\ Len(handed) = Len(scorer_result)

\* C5: a fallback record has the seven fields, strength = current_value =
\* the drawn base_strength, and peak_value = 1.2 * base_strength
\* (10 * peak_value = 12 * current_value), so peak_value >= current_value.
C5_FallbackRecordShape ==
    \A i \in 1..Len(FallbackRecords) :
       LET r == FallbackRecords[i]
       IN  /\ DOMAIN r = RecordFields
           /\ r.strength.val = r.current_value.val
           /\ \E k \in Seeds : r.strength.val = Uniform(40, 80, RandomUnits[k]).val
           /\ 10 * r.peak_value.val = 12 * r.current_value.val
           /\ r.peak_value.val >= r.current_value.val

\* a web fallback record of strength 80 and peak value 96
C5_Witness ==
    /\ path = "web" /\ fallback_ran /\ pc = "handed"
    /\ \E i \in 1..Len(handed) :
          /\ handed[i].current_value.val = 80 * Scale
          /\ handed[i].peak_value.val = 96 * Scale

\* C9: every numeric field of every record handed to the composer is a plain
\* float or int, in the web path and in the CLI.
C9_PlainNumbersHanded ==
    pc = "handed" =>
       \A i \in 1..Len(handed) : \A f \in NumericFields :
          handed[i][f].type \in {"float", "int"}

----------------------------------------------------------------------------
(* get_shoe_keywords called on its own *)

NotLoaded == [ok |-> TRUE, items |-> <<>>]

KwInit ==
    /\ RunIdle /\ UpIdle
    /\ kw_pc = "call"
    /\ kw_items \in Inventories
    /\ kw_use_inventory \in BOOLEAN
    /\ kw_additional \in AdditionalLists
    /\ kw_loaded = NotLoaded
    /\ kw_result = <<>>

\* main.py lines 25-75; InventoryManager() is loaded only at lines 33-35
GetShoeKeywords ==
    /\ kw_pc = "call"
    /\ \E loaded \in (IF kw_use_inventory /\ kw_items = <<>>
                      THEN LoadOutcomes ELSE {NotLoaded}) :
          /\ kw_loaded' = loaded
          /\ kw_result' = get_shoe_keywords(kw_items, kw_use_inventory,
                                            kw_additional, loaded)
    /\ kw_pc' = "returned"
    /\ UNCHANGED <<kw_items, kw_use_inventory, kw_additional>>
    /\ UNCHANGED <<runVars, upVars>>

KwNext == GetShoeKeywords

SpecKeywords == KwInit /\ [][KwNext]_vars

\* the lower-cased names of a list, each at its first occurrence ignoring case
RECURSIVE FirstOccurrences(_, _)
FirstOccurrences(names, k) ==
    IF k = 0 THEN <<>>
    ELSE LET rest == FirstOccurrences(names, k - 1)
         IN  IF \E j \in 1..(k - 1) : Lower(names[j]) = Lower(names[k])
             THEN rest
             ELSE Append(rest, Lower(names[k]))

LowerCased(list) == \A i \in 1..Len(list) : list[i] = Lower(list[i])

NoDuplicates(list) ==
    \A i \in 1..Len(list) : \A j \in 1..Len(list) :
       i # j => Lower(list[i]) # Lower(list[j])

\* C6: the keyword list handed to the scorer, in the CLI and in the web path,
\* is lower-cased, has no two entries equal ignoring case, and lists the
\* product names in the order of their first occurrence.
C6_KeywordsLowerUnique ==
    pc \in {"keywords", "scored", "sampled", "handed"} =>
       /\ LowerCased(keywords)
       /\ NoDuplicates(keywords)
       /\ inventory_items # <<>> =>
             keywords = FirstOccurrences(inventory_items, Len(inventory_items))

\* the same of get_shoe_keywords alone, which the CLI uses
C6_GetShoeKeywordsLowerUnique ==
    kw_pc = "returned" =>
       /\ LowerCased(kw_result)
       /\ NoDuplicates(kw_result)
       /\ (kw_use_inventory /\ kw_items # <<>> /\ kw_additional = <<>>) =>
             kw_result = FirstOccurrences(kw_items, Len(kw_items))

\* C7 as stated: no inventory items and no additional keywords give no keywords.
C7_EmptyInEmptyOut ==
    (kw_pc = "returned" /\ kw_items = <<>> /\ kw_additional = <<>>) =>
       kw_result = <<>>

\* C7, amended: no inventory items and no additional keywords give the
\* keywords of the default inventory if InventoryManager() loads one with
\* items, and the fifteen default keywords otherwise; never the empty list.
C7_EmptyInDefaultsOut ==
    (kw_pc = "returned" /\ kw_items = <<>> /\ kw_additional = <<>>) =>
       /\ kw_result # <<>>
       /\ IF kw_use_inventory /\ kw_loaded.ok /\ kw_loaded.items # <<>>
          THEN kw_result = FirstOccurrences(kw_loaded.items, Len(kw_loaded.items))
          ELSE Len(kw_result) = 15 /\ kw_result = DefaultKeywords

\* the call with no items whose load of the default inventory failed
C7_Witness ==
    /\ kw_pc = "returned" /\ kw_items = <<>> /\ kw_additional = <<>>
    /\ kw_use_inventory /\ ~kw_loaded.ok
    /\ Len(kw_result) = 15
    /\ kw_result[13] = loafers

\* the keywords before the additional ones are merged
DerivedKeywords ==
    LET items == IF kw_items # <<>> THEN kw_items ELSE kw_loaded.items
    IN  IF kw_use_inventory /\ items # <<>>
        THEN FirstOccurrences(items, Len(items))
        ELSE DefaultKeywords

\* C8: the result is the inventory-derived keywords, unmoved, followed by the
\* additional keywords that equal (ignoring case) neither one of those nor an
\* earlier additional keyword, lower-cased, once each, in the order given.
C8_AdditionalAppended ==
    kw_pc = "returned" =>
       LET all == DerivedKeywords \o kw_additional
       IN  /\ Len(kw_result) >= Len(DerivedKeywords)
           /\ SubSeq(kw_result, 1, Len(DerivedKeywords)) = DerivedKeywords
           /\ kw_result = FirstOccurrences(all, Len(all))
           /\ \A i \in 1..Len(kw_additional) :
                 Cardinality({j \in 1..Len(kw_result) :
                                kw_result[j] = Lower(kw_additional[i])}) = 1

\* one item "Boots", additional "Loafers" (new) and "boots" (a duplicate)
C8_Witness ==
    /\ kw_pc = "returned"
    /\ kw_items = <<Boots>>
    /\ kw_use_inventory
    /\ kw_additional = <<Loafers, boots>>
    /\ kw_result = <<boots, loafers>>

----------------------------------------------------------------------------
(* The upload handler, app.py upload_file, process_inventory and          *)
(* download_report, with requests served concurrently                     *)

Requests == {1, 2}

\* the files a request may carry: none, or one under a name
NoFile == [present |-> FALSE, filename |-> <<>>]
File(name) == [present |-> TRUE, filename |-> name]
UploadFiles ==
    {NoFile,
     File(<<>>),
     File(<<"n","o","t","e","s",".","t","x","t">>),
     File(<<"i","n","v",".","c","s","v">>),
     File(<<".",".","/","i","n","v",".","c","s","v">>)}

\* the form of a request: a field is absent or carries a text
Absent == [given |-> FALSE, text |-> <<>>]
Text(t) == [given |-> TRUE, text |-> t]
Forms ==
    {[max_keywords |-> Absent, min_confidence |-> Absent],
     [max_keywords |-> Text(<<"a","b","c">>), min_confidence |-> Absent],
     [max_keywords |-> Text(<<"1","0">>), min_confidence |-> Text(<<"h","i","g","h">>)]}

Digits == {"0","1","2","3","4","5","6","7","8","9"}

\* a plausible slip: the text is passed on without int()
IntUnchecked(t) == TRUE

\* int(text) raises ValueError unless the text is a decimal integer
IntOk(t) == Len(t) > 0 /\ \A i \in 1..Len(t) : t[i] \in Digits

\* float(text) raises ValueError unless the text is a decimal number
FloatOk(t) ==
    /\ \E i \in 1..Len(t) : t[i] \in Digits
    /\ \A i \in 1..Len(t) : t[i] \in Digits \cup {"."}
    /\ Cardinality({i \in 1..Len(t) : t[i] = "."}) <= 1

\* the position of the last "." of a name, 0 if it has none
LastDot(name) ==
    IF \E i \in 1..Len(name) : name[i] = "."
    THEN CHOOSE i \in 1..Len(name) :
            name[i] = "." /\ \A j \in (i + 1)..Len(name) : name[j] # "."
    ELSE 0

\* lines 48-51
allowed_file(filename) ==
    /\ LastDot(filename) # 0
    /\ Lower(SubSeq(filename, LastDot(filename) + 1, Len(filename))) = <<"c","s","v">>

SafeChars ==
    {UpperLetters[i] : i \in 1..26} \cup {LowerLetters[i] : i \in 1..26}
       \cup Digits \cup {"_", ".", "-"}

RECURSIVE StripLeft(_, _)
StripLeft(t, chars) ==
    IF t # <<>> /\ Head(t) \in chars THEN StripLeft(Tail(t), chars) ELSE t

RECURSIVE StripRight(_, _)
StripRight(t, chars) ==
    IF t # <<>> /\ t[Len(t)] \in chars
    THEN StripRight(SubSeq(t, 1, Len(t) - 1), chars) ELSE t

\* "_".join(t.split()): runs of blanks become one "_", outer blanks go
RECURSIVE JoinWords(_)
JoinWords(t) ==
    IF t = <<>> THEN <<>>
    ELSE IF Head(t) = " "
         THEN LET rest == StripLeft(t, {" "})
              IN  IF rest = <<>> THEN <<>> ELSE <<"_">> \o JoinWords(rest)
         ELSE <<Head(t)>> \o JoinWords(Tail(t))

\* werkzeug.utils.secure_filename, used at line 77: path separators become
\* blanks, words are joined by "_", other characters are dropped, and
\* leading and trailing "." and "_" are stripped
secure_filename(filename) ==
    LET spaced == [i \in 1..Len(filename) |->
                     IF filename[i] = "/" THEN " " ELSE filename[i]]
        joined == JoinWords(StripLeft(spaced, {" "}))
        kept == SelectSeq(joined, LAMBDA c : c \in SafeChars)
    IN  StripRight(StripLeft(kept, {".", "_"}), {".", "_"})

\* a file of a folder: its path and its content
Entry(p, c) == [path |-> p, content |-> c]

\* writing a path replaces what the folder held there
Write(folder, p, c) == {e \in folder : e.path # p} \cup {Entry(p, c)}

Read(folder, p) == (CHOOSE e \in folder : e.path = p).content

NoPath == [ts |-> -1, name |-> <<>>]
NoReport == [by |-> 0, csv |-> 0]

NewRequest(file, form) ==
    [pc |-> "received", file |-> file, form |-> form,
     filepath |-> NoPath, csv |-> 0, report_filename |-> -1,
     status |-> 0, report_url |-> -1, fetched |-> NoReport]

UploadInit ==
    /\ KwIdle /\ RunIdle
    /\ now = 0
    /\ uploads = {}
    /\ reports = {}
    /\ rq \in [Requests -> {NewRequest(f, form) : f \in UploadFiles, form \in Forms}]

\* the clock passes to the next second
Tick ==
    /\ now < MaxClock
    /\ now' = now + 1
    /\ UNCHANGED <<uploads, reports, rq>>
    /\ UNCHANGED <<kwVars, runVars>>

\* lines 65-74: the request is refused
Reject(r) ==
    /\ rq[r].pc = "received"
    /\ \/ ~rq[r].file.present
       \/ rq[r].file.filename = <<>>
       \/ ~allowed_file(rq[r].file.filename)
    /\ rq' = [rq EXCEPT ![r].pc = "done", ![r].status = 400]
    /\ UNCHANGED <<now, uploads, reports>>
    /\ UNCHANGED <<kwVars, runVars>>

\* lines 65-81: the file is saved as <second>_<secure name>; the content of
\* request r's file is r
SaveUpload(r) ==
    /\ rq[r].pc = "received"
    /\ rq[r].file.present
    /\ rq[r].file.filename # <<>>
    /\ allowed_file(rq[r].file.filename)
    /\ LET filepath == [ts |-> now, name |-> secure_filename(rq[r].file.filename)]
       IN  /\ uploads' = Write(uploads, filepath, r)
           /\ rq' = [rq EXCEPT ![r].pc = "saved", ![r].filepath = filepath]
    /\ UNCHANGED <<now, reports>>
    /\ UNCHANGED <<kwVars, runVars>>

\* lines 84-85 and 92-96: int() and float() of the form's values
ParseParams(r) ==
    /\ rq[r].pc = "saved"
    /\ LET form == rq[r].form
           ok == /\ form.max_keywords.given => IntOk(form.max_keywords.text)
                 /\ form.min_confidence.given => FloatOk(form.min_confidence.text)
       IN  rq' = IF ok THEN [rq EXCEPT ![r].pc = "processing"]
                 ELSE [rq EXCEPT ![r].pc = "done", ![r].status = 500]
    /\ UNCHANGED <<now, uploads, reports>>
    /\ UNCHANGED <<kwVars, runVars>>

\* lines 88, 129-135: process_inventory reads the CSV at its path
LoadCsv(r) ==
    /\ rq[r].pc = "processing"
    /\ rq' = [rq EXCEPT ![r].pc = "loaded", ![r].csv = Read(uploads, rq[r].filepath)]
    /\ UNCHANGED <<now, uploads, reports>>
    /\ UNCHANGED <<kwVars, runVars>>

\* lines 138-210: the analysis of what was read, and its report written as
\* atim_report_<second>.html
GenerateReport(r) ==
    /\ rq[r].pc = "loaded"
    /\ reports' = Write(reports, now, [by |-> r, csv |-> rq[r].csv])
    /\ rq' = [rq EXCEPT ![r].pc = "reported", ![r].report_filename = now]
    /\ UNCHANGED <<now, uploads>>
    /\ UNCHANGED <<kwVars, runVars>>

\* lines 213-232 and 90: the response names the report
Respond(r) ==
    /\ rq[r].pc = "reported"
    /\ rq' = [rq EXCEPT ![r].pc = "responded", ![r].status = 200,
                        ![r].report_url = rq[r].report_filename]
    /\ UNCHANGED <<now, uploads, reports>>
    /\ UNCHANGED <<kwVars, runVars>>

\* lines 235-242: the client follows the report_url of its response
DownloadReport(r) ==
    /\ rq[r].pc = "responded"
    /\ rq' = [rq EXCEPT ![r].pc = "done", ![r].fetched = Read(reports, rq[r].report_url)]
    /\ UNCHANGED <<now, uploads, reports>>
    /\ UNCHANGED <<kwVars, runVars>>

UploadNext ==
    \/ Tick
    \/ \E r \in Requests : Reject(r)
    \/ \E r \in Requests : SaveUpload(r)
    \/ \E r \in Requests : ParseParams(r)
    \/ \E r \in Requests : LoadCsv(r)
    \/ \E r \in Requests : GenerateReport(r)
    \/ \E r \in Requests : Respond(r)
    \/ \E r \in Requests : DownloadReport(r)

SpecUpload == UploadInit /\ [][UploadNext]_vars

\* C10: runs share nothing: each run reads the CSV it saved itself, and the
\* report_url it returns is that of the report the same run generated from
\* it, whatever other requests do meanwhile.
C10_RunsIsolated ==
    \A r \in Requests :
       /\ rq[r].csv \in {0, r}
       /\ rq[r].status = 200 =>
             /\ Read(reports, rq[r].report_url).by = r
             /\ Read(reports, rq[r].report_url).csv = r
       /\ rq[r].fetched.by \in {0, r}

\* a text with a letter in it is no number
HasLetter(t) ==
    \E i \in 1..Len(t) :
       \/ \E k \in 1..Len(UpperLetters) : t[i] = UpperLetters[k]
       \/ \E k \in 1..Len(LowerLetters) : t[i] = LowerLetters[k]

\* the request's form carries a max_keywords or a min_confidence that is no number
BadForm(r) ==
    \/ rq[r].form.max_keywords.given /\ HasLetter(rq[r].form.max_keywords.text)
    \/ rq[r].form.min_confidence.given /\ HasLetter(rq[r].form.min_confidence.text)

\* C11: a request whose max_keywords or min_confidence is no number never
\* enters process_inventory (no CSV read, no report written, no report_url)
\* and ends with an error response.
C11_BadFormNeverScored ==
    \A r \in Requests :
       BadForm(r) =>
          /\ rq[r].pc \in {"received", "saved", "done"}
          /\ rq[r].csv = 0
          /\ rq[r].report_filename = -1
          /\ rq[r].report_url = -1
          /\ rq[r].status \in {0, 400, 500}
          /\ rq[r].pc = "done" => rq[r].status \in {400, 500}
          /\ \A e \in reports : e.content.by # r

\* a request with the file inv.csv and max_keywords "abc": the file was
\* saved, the response is the 500 of the except clause
C11_Witness ==
    \E r \in Requests :
       /\ rq[r].form.max_keywords = Text(<<"a","b","c">>)
       /\ rq[r].pc = "done"
       /\ rq[r].status = 500
       /\ rq[r].filepath.ts = 0
       /\ \E e \in uploads : e.path = rq[r].filepath

\* C12: a fallback record has strength in [40, 80], velocity in [-10, 15]
\* and so confidence in [16, 41]; the fallback's records are handed to the
\* composer all of them, one per sampled keyword, whatever min_confidence is.
C12_FallbackNotFiltered ==
    /\ \A i \in 1..Len(FallbackRecords) :
          LET r == FallbackRecords[i]
          IN  /\ 40 * Scale <= r.strength.val /\ r.strength.val <= 80 * Scale
              /\ -10 * Scale <= r.velocity.val /\ r.velocity.val <= 15 * Scale
              /\ 16 * Scale <= r.confidence.val /\ r.confidence.val <= 41 * Scale
    /\ (fallback_ran /\ pc = "handed") =>
          /\ Len(handed) = (IF Len(keywords) < 5 THEN Len(keywords) ELSE 5)
          /\ \A i \in 1..Len(handed) : handed[i].keyword = keywords[i]
          /\ handed = trending_products

\* a web run with min_confidence 20 that hands on a fallback record of
\* strength 40, velocity 0 and confidence 16
C12_Witness ==
    /\ path = "web" /\ pc = "handed" /\ fallback_ran
    /\ min_confidence = Lit(20)
    /\ \E i \in 1..Len(handed) :
          /\ handed[i].strength.val = 40 * Scale
          /\ handed[i].velocity.val = 0
          /\ handed[i].confidence.val = 16 * Scale
          /\ handed[i].confidence.val < min_confidence.val

====
